---- MODULE Spec2Model ----
(***************************************************************************)
(* torrentrss: one run of TorrentRSS (check_feeds, then                    *)
(* save_episode_numbers), repeated as separate program invocations that    *)
(* reload the persisted configuration.  Feed.matching_subs is modelled one *)
(* (entry, subscription) visit per step.                                   *)
(***************************************************************************)
EXTENDS Integers, Sequences, FiniteSets, TLC

VARIABLES
    config,            \* persisted JSON: sub -> [series_number, episode_number]
    number,            \* Subscription.number of every subscription
    remote,            \* what each feed's url answers (environment)
    pc,                \* position of the run
    feed,              \* index into Feeds of the feed being scanned
    rss,               \* rss['entries'] of the scan in progress
    original_numbers,  \* matching_subs: snapshot taken after the fetch
    index,             \* matching_subs: position in reversed(rss['entries'])
    subIdx,            \* matching_subs: position in subscriptions.values()
    pending,           \* the pair handed to the consumer by `yield`
    urls,              \* check_feeds: the list of (url, command)
    launchIdx,         \* check_feeds: position in urls
    launched,          \* Command.__call__ invocations that succeeded
    error,             \* exception that ended the run
    cycle,             \* number of the program invocation
    yields,            \* history: pairs yielded in this cycle
    prevYields,        \* history: pairs yielded in the previous cycle
    cycleStart,        \* history: number of every sub when the cycle began
    scanned,           \* history: feeds whose scan ran to exhaustion
    gtA, gtB, gtRes,   \* EpisodeNumber.__gt__ called on its own
    gtC,               \* a third number, for chains of comparisons
    call,              \* a function called on its own: its arguments
    ret                \* what that call returned, raised and did

vars == <<config, number, remote, pc, feed, rss, original_numbers, index,
          subIdx, pending, urls, launchIdx, launched, error, cycle, yields,
          prevYields, cycleStart, scanned, gtA, gtB, gtRes, gtC, call,
          ret>>

(***************************************************************************)
(* Bounds                                                                  *)
(***************************************************************************)
\* episode numbers in titles are 1..MaxEpisode
MaxEpisode == 3
\* a feed lists at most MaxEntries entries
MaxEntries == 2
\* the program is invoked at most MaxCycles times
MaxCycles == 2
\* an entry has at most MaxLinks links
MaxLinks == 3
\* a command template has at most MaxArgs arguments
MaxArgs == 2

(***************************************************************************)
(* Values                                                                  *)
(***************************************************************************)
\* Python None in an Optional[int]
None == -1

TORRENT_MIMETYPE == "application/x-bittorrent"

HTTP_OK == 200

\* EpisodeNumber.__init__
EpisodeNumber(series, episode) == [series |-> series, episode |-> episode]

OptNums(max) == {None} \cup (1..max)

\* the series of the shows in the feeds
SeriesNumbers == {1, 2}

EpisodeNumbers ==
    {EpisodeNumber(s, e) : s \in {None} \cup SeriesNumbers,
                           e \in OptNums(MaxEpisode)}

\* EpisodeNumber.__gt__ with the check of self.episode left out
GtNoSelfCheck(self, other) ==
    IF other.episode = None THEN TRUE
    ELSE IF self.series # None /\ other.series # None
            /\ self.series # other.series
         THEN self.series > other.series
         ELSE self.episode > other.episode

\* EpisodeNumber.__gt__ as the older revision has it: a greater series or a
\* greater episode
GtSeriesOrEpisode(self, other) ==
    IF self.episode = None THEN FALSE
    ELSE \/ other.episode = None
         \/ (self.series # None /\ other.series # None
                /\ self.series > other.series)
         \/ self.episode > other.episode

\* EpisodeNumber.__gt__ comparing the episodes with >=
GtOrEqual(self, other) ==
    IF self.episode = None THEN FALSE
    ELSE IF other.episode = None THEN TRUE
    ELSE IF self.series # None /\ other.series # None
            /\ self.series # other.series
         THEN self.series > other.series
         ELSE self.episode >= other.episode

\* EpisodeNumber.__gt__
Gt(self, other) ==
    IF self.episode = None THEN FALSE
    ELSE IF other.episode = None THEN TRUE
    ELSE IF self.series # None /\ other.series # None
            /\ self.series # other.series
         THEN self.series > other.series
         ELSE self.episode > other.episode

\* EpisodeNumber.__eq__ looking at the episode only
EqEpisodeOnly(self, other) == self.episode = other.episode

\* EpisodeNumber.__eq__
Eq(self, other) ==
    self.series = other.series /\ self.episode = other.episode

(***************************************************************************)
(* Titles, entries and patterns                                            *)
(***************************************************************************)
\* a number as it is written in a title: two decimal digits
Digits(n) == <<n \div 10, n % 10>>

\* int() of a captured group
int(str) == str[1] * 10 + str[2]

\* the title "<show> S<series>E<episode>"
Title(show, s, e) == [show |-> show, series |-> Digits(s), episode |-> Digits(e)]

\* an entry as feedparser gives it: show A entries carry an enclosure of the
\* torrent mimetype and a link, the show B entry has no link element at all
Entry(show, s, e) ==
    [title |-> Title(show, s, e),
     has_links |-> (show = "A"),
     links |-> IF show = "A"
               THEN <<[type |-> TORRENT_MIMETYPE, href |-> <<"torrent", s, e>>]>>
               ELSE <<>>,
     link |-> <<"page", s, e>>]

\* the first series of show A up to episode MaxEpisode, the first episode of
\* its second series, and one episode of show B
Entries ==
    {Entry("A", 1, e) : e \in 1..MaxEpisode}
        \cup {Entry("A", 2, 1), Entry("B", 1, 1)}

EntryLists(n) == UNION {[1..k -> Entries] : k \in 0..n}

\* TorrentRSS.feeds, in dict order
Feeds == <<"F1", "F2", "F3">>

\* Feed.subscriptions.values(), in dict order
Subscriptions(f) ==
    IF f = "F1" THEN <<"s1", "s2">> ELSE IF f = "F2" THEN <<"s3">> ELSE <<>>

Range(seq) == {seq[i] : i \in 1..Len(seq)}

Subs == UNION {Range(Subscriptions(Feeds[i])) : i \in 1..Len(Feeds)}

FeedOf(s) == CHOOSE f \in Range(Feeds) : s \in Range(Subscriptions(f))

\* Subscription.regex: s1 and s3 are "A S(?P<series>\d+)E(?P<episode>\d+)",
\* s2 is "S\d+E(?P<episode>\d+)"
Pattern(s) ==
    IF s = "s2" THEN [shows |-> {"A", "B"}, series_group |-> FALSE]
                ELSE [shows |-> {"A"}, series_group |-> TRUE]

\* Subscription.command: s1 has its own, the others have none
SubCommand(s) == IF s = "s1" THEN "command_s1" ELSE "None"

NoMatch == [matched |-> FALSE, has_series |-> FALSE,
            series |-> <<0, 0>>, episode |-> <<0, 0>>]

\* sub.regex.search(entry['title']) and the groupdict of the match
search(pattern, title) ==
    IF title.show \in pattern.shows
    THEN [matched |-> TRUE, has_series |-> pattern.series_group,
          series |-> title.series, episode |-> title.episode]
    ELSE NoMatch

\* EpisodeNumber.from_regex_match
from_regex_match(match) ==
    EpisodeNumber(IF match.has_series THEN int(match.series) ELSE None,
                  int(match.episode))

Reverse(seq) == [i \in 1..Len(seq) |-> seq[Len(seq) - i + 1]]

\* matching_subs visits the entries in the list order
ListOrder(entries) == entries

\* matching_subs: reversed(rss['entries'])
VisitOrder(entries) == Reverse(entries)

\* matching_subs: index = len(rss['entries']) - index - 1, here counted from 1
ListIndex(k, entries) == Len(entries) - k + 1

\* Feed.fetch that only looks at the status
FetchRaisesOnStatusOnly(response) == response.status # HTTP_OK

\* Feed.fetch raises FeedError
FetchRaises(response) == response.status # HTTP_OK \/ response.bozo

\* the comparison of matching_subs made against the live number
LiveNumber(s) == number[s]

\* matching_subs: original_numbers[sub]
Original(s) == original_numbers[s]

\* matching_subs yielding every match
IsGreaterAlways(num, s) == TRUE

\* matching_subs: number > original_numbers[sub]
IsGreater(num, s) == Gt(num, Original(s))

\* matching_subs leaving the number for later
AssignLater(s, num) == number

\* matching_subs: sub.number = number
Assign(s, num) == [number EXCEPT ![s] = num]

\* Feed.get_entry_url raises KeyError: rss_entry['links'] is missing
EntryUrlRaises(entry) == ~entry.has_links

RECURSIVE FirstTorrentLink(_, _)
FirstTorrentLink(links, i) ==
    IF i > Len(links) THEN 0
    ELSE IF links[i].type = TORRENT_MIMETYPE THEN i
    ELSE FirstTorrentLink(links, i + 1)

\* Feed.get_entry_url taking the first link whatever its type
FirstLinkUrl(entry) ==
    IF Len(entry.links) > 0 THEN entry.links[1].href ELSE entry.link

\* Feed.get_entry_url
get_entry_url(entry) ==
    LET i == FirstTorrentLink(entry.links, 1)
    IN IF i # 0 THEN entry.links[i].href ELSE entry.link

\* check_feeds launching everything with the default command
DefaultCommandOnly(s) == "default_command"

\* check_feeds: sub.command or self.default_command
CommandFor(s) == IF SubCommand(s) # "None" THEN SubCommand(s) ELSE "default_command"

(***************************************************************************)
(* Initial state: the configuration as loaded, the feeds as served         *)
(***************************************************************************)
Response(status, bozo, entries) ==
    [status |-> status, bozo |-> bozo, entries |-> entries]

\* the entries of an answer that Feed.fetch refuses
RefusedEntries == <<Entry("A", 2, 1)>>

\* what the url of F1 may answer
Responses ==
    {Response(HTTP_OK, FALSE, es) : es \in EntryLists(MaxEntries)}
        \cup {Response(404, FALSE, RefusedEntries),
              Response(204, FALSE, RefusedEntries),
              Response(HTTP_OK, TRUE, RefusedEntries)}

\* what the url of F2 may answer
OtherResponses ==
    {Response(HTTP_OK, FALSE, <<>>),
     Response(HTTP_OK, FALSE, <<Entry("A", 1, 2)>>),
     Response(404, FALSE, RefusedEntries),
     Response(HTTP_OK, TRUE, RefusedEntries)}

\* series_number / episode_number of a subscription in the config file
\* (None: the key is absent)
SubDict(series, episode) ==
    [series_number |-> series, episode_number |-> episode]

\* the numbers the config file may hold for a subscription
SubDicts(s) ==
    IF s = "s1"
    THEN {SubDict(None, None), SubDict(None, 1), SubDict(1, None),
          SubDict(1, 1)}
    ELSE IF s = "s2"
    THEN {SubDict(None, None), SubDict(None, 1)}
    ELSE {SubDict(None, None)}

\* Subscription.__init__: number from series_number and episode_number
LoadNumbers(cfg) ==
    [s \in Subs |-> EpisodeNumber(cfg[s].series_number, cfg[s].episode_number)]

EmptyMap == [s \in {} |-> EpisodeNumber(None, None)]

\* the program has been started on the config: TorrentRSS.__init__
Idle ==
    /\ number = LoadNumbers(config)
    /\ pc = "check_feeds"
    /\ feed = 1
    /\ rss = <<>>
    /\ original_numbers = EmptyMap
    /\ index = 0
    /\ subIdx = 0
    /\ pending = <<>>
    /\ urls = <<>>
    /\ launchIdx = 0
    /\ launched = <<>>
    /\ error = "None"
    /\ cycle = 1
    /\ yields = <<>>
    /\ prevYields = <<>>
    /\ cycleStart = number
    /\ scanned = {}

Init ==
    /\ config \in {c \in [Subs -> UNION {SubDicts(s) : s \in Subs}] :
                      \A s \in Subs : c[s] \in SubDicts(s)}
    /\ remote \in {[F1 |-> r1, F2 |-> r2,
                     F3 |-> Response(404, FALSE, RefusedEntries)] :
                        r1 \in Responses, r2 \in OtherResponses}
    /\ Idle
    /\ gtA = EpisodeNumber(None, None)
    /\ gtB = EpisodeNumber(None, None)
    /\ gtC = EpisodeNumber(None, None)
    /\ gtRes = <<>>
    /\ call = <<>>
    /\ ret = <<>>

\* the variables of the functions called on their own
gtVars == <<gtA, gtB, gtRes, gtC, call, ret>>

\* the variables of the run
runVars == <<config, number, remote, pc, feed, rss, original_numbers, index,
             subIdx, pending, urls, launchIdx, launched, error, cycle, yields,
             prevYields, cycleStart, scanned>>

(***************************************************************************)
(* TorrentRSS.check_feeds: the scans                                       *)
(***************************************************************************)
\* the list comprehension of check_feeds goes on to the next feed
NextFeed ==
    /\ feed' = feed + 1
    /\ pc' = IF feed + 1 > Len(Feeds) THEN "launch" ELSE "check_feeds"
    /\ launchIdx' = IF feed + 1 > Len(Feeds) THEN 1 ELSE 0
    /\ rss' = <<>>
    /\ original_numbers' = EmptyMap
    /\ index' = 0
    /\ subIdx' = 0

\* run saving the numbers also when check_feeds raised
RaiseThenSave(exception) ==
    /\ pc' = "save"
    /\ error' = exception

\* an exception leaves check_feeds and run; cli._main exits
Raise(exception) ==
    /\ pc' = "failed"
    /\ error' = exception

\* matching_subs fetching whatever the subscriptions are
NoSubscriptionsUnchecked(f) == FALSE

\* matching_subs: if not self.subscriptions
NoSubscriptions(f) == Len(Subscriptions(f)) = 0

\* Feed.matching_subs up to the loop: the fetch and the snapshot
MatchingSubsFetch ==
    /\ pc = "check_feeds"
    /\ LET f == Feeds[feed]
       IN IF NoSubscriptions(f)
          THEN /\ NextFeed
               /\ scanned' = scanned \cup {f}
               /\ UNCHANGED error
          ELSE IF FetchRaises(remote[f])
          THEN /\ Raise("FeedError")
               /\ UNCHANGED <<feed, launchIdx, rss, original_numbers, index,
                              subIdx, scanned>>
          ELSE /\ rss' = remote[f].entries
               /\ original_numbers' =
                      [s \in Range(Subscriptions(f)) |-> number[s]]
               /\ index' = 1
               /\ subIdx' = 1
               /\ pc' = "scan"
               /\ UNCHANGED <<feed, launchIdx, scanned, error>>
    /\ UNCHANGED <<config, number, remote, pending, urls, launched, cycle,
                   yields, prevYields, cycleStart, gtVars>>

\* Feed.matching_subs: one entry against one subscription
MatchingSubsVisit ==
    /\ pc = "scan"
    /\ index <= Len(rss)
    /\ LET f == Feeds[feed]
           subs == Subscriptions(f)
           entry == VisitOrder(rss)[index]
           s == subs[subIdx]
           match == search(Pattern(s), entry.title)
           num == from_regex_match(match)
       IN /\ IF subIdx < Len(subs)
             THEN subIdx' = subIdx + 1 /\ index' = index
             ELSE subIdx' = 1 /\ index' = index + 1
          /\ IF match.matched /\ IsGreater(num, s)
             THEN /\ number' = Assign(s, num)
                  /\ pending' = <<[sub |-> s, entry |-> entry]>>
                  /\ yields' = Append(yields,
                                 [feed |-> f, sub |-> s, number |-> num,
                                  index |-> ListIndex(index, rss)])
                  /\ pc' = "yielded"
             ELSE UNCHANGED <<number, pending, yields, pc>>
    /\ UNCHANGED <<config, remote, feed, rss, original_numbers, urls,
                   launchIdx, launched, error, cycle, prevYields, cycleStart,
                   scanned, gtVars>>

\* Feed.matching_subs: the loop is over, the generator is exhausted
MatchingSubsEnd ==
    /\ pc = "scan"
    /\ index > Len(rss)
    /\ scanned' = scanned \cup {Feeds[feed]}
    /\ NextFeed
    /\ UNCHANGED <<config, number, remote, pending, urls, launched, error,
                   cycle, yields, prevYields, cycleStart, gtVars>>

\* check_feeds: the element of the comprehension for the yielded pair
CheckFeedsCollect ==
    /\ pc = "yielded"
    /\ LET pair == pending[1]
       IN IF EntryUrlRaises(pair.entry)
          THEN /\ Raise("KeyError")
               /\ UNCHANGED <<urls, pending>>
          ELSE /\ urls' = Append(urls, [url |-> get_entry_url(pair.entry),
                                        command |-> CommandFor(pair.sub)])
               /\ pending' = <<>>
               /\ pc' = "scan"
               /\ UNCHANGED error
    /\ UNCHANGED <<config, number, remote, feed, rss, original_numbers, index,
                   subIdx, launchIdx, launched, cycle, yields, prevYields,
                   cycleStart, scanned, gtVars>>

(***************************************************************************)
(* TorrentRSS.check_feeds: the launches                                    *)
(***************************************************************************)
\* await command(url): the process is spawned
CheckFeedsLaunch ==
    /\ pc = "launch"
    /\ launchIdx <= Len(urls)
    /\ launched' = Append(launched, urls[launchIdx])
    /\ launchIdx' = launchIdx + 1
    /\ UNCHANGED <<config, number, remote, pc, feed, rss, original_numbers,
                   index, subIdx, pending, urls, error, cycle, yields,
                   prevYields, cycleStart, scanned, gtVars>>

\* await command(url): Popen raises
CheckFeedsLaunchFails ==
    /\ pc = "launch"
    /\ launchIdx <= Len(urls)
    /\ Raise("OSError")
    /\ UNCHANGED <<config, number, remote, feed, rss, original_numbers, index,
                   subIdx, pending, urls, launchIdx, launched, cycle, yields,
                   prevYields, cycleStart, scanned, gtVars>>

\* check_feeds returns
CheckFeedsReturn ==
    /\ pc = "launch"
    /\ launchIdx > Len(urls)
    /\ pc' = "save"
    /\ UNCHANGED <<config, number, remote, feed, rss, original_numbers, index,
                   subIdx, pending, urls, launchIdx, launched, error, cycle,
                   yields, prevYields, cycleStart, scanned, gtVars>>

(***************************************************************************)
(* TorrentRSS.save_episode_numbers and the next invocation                 *)
(***************************************************************************)
SavedConfig ==
    [s \in Subs |->
        SubDict(IF number[s].series # None
                THEN number[s].series ELSE config[s].series_number,
                IF number[s].episode # None
                THEN number[s].episode ELSE config[s].episode_number)]

\* TorrentRSS.save_episode_numbers
SaveEpisodeNumbers ==
    /\ pc = "save"
    /\ config' = SavedConfig
    /\ pc' = "done"
    /\ UNCHANGED <<number, remote, feed, rss, original_numbers, index, subIdx,
                   pending, urls, launchIdx, launched, error, cycle, yields,
                   prevYields, cycleStart, scanned, gtVars>>

\* the program is started again: TorrentRSS.from_path on the saved file
NextRun ==
    /\ pc = "done"
    /\ cycle < MaxCycles
    /\ cycle' = cycle + 1
    /\ number' = LoadNumbers(config)
    /\ cycleStart' = LoadNumbers(config)
    /\ prevYields' = yields
    /\ yields' = <<>>
    /\ scanned' = {}
    /\ urls' = <<>>
    /\ launched' = <<>>
    /\ launchIdx' = 0
    /\ feed' = 1
    /\ pc' = "check_feeds"
    /\ UNCHANGED <<config, remote, rss, original_numbers, index, subIdx,
                   pending, error, gtVars>>

Next ==
    \/ MatchingSubsFetch
    \/ MatchingSubsVisit
    \/ MatchingSubsEnd
    \/ CheckFeedsCollect
    \/ CheckFeedsLaunch
    \/ CheckFeedsLaunchFails
    \/ CheckFeedsReturn
    \/ SaveEpisodeNumbers
    \/ NextRun

Spec == Init /\ [][Next]_vars

(***************************************************************************)
(* EpisodeNumber.__gt__ on its own: any two numbers, one comparison        *)
(***************************************************************************)
InitGt ==
    /\ config = [s \in Subs |-> SubDict(None, None)]
    /\ remote = [f \in Range(Feeds) |-> Response(HTTP_OK, FALSE, <<>>)]
    /\ Idle
    /\ gtA \in EpisodeNumbers
    /\ gtB \in EpisodeNumbers
    /\ gtC \in EpisodeNumbers
    /\ gtRes = <<>>
    /\ call = <<>>
    /\ ret = <<>>

\* gtA > gtB, gtB > gtA, gtA == gtB, gtB > gtC, gtA > gtC, gtA > gtA
GtCall ==
    /\ gtRes = <<>>
    /\ gtRes' = <<Gt(gtA, gtB), Gt(gtB, gtA), Eq(gtA, gtB), Gt(gtB, gtC),
                  Gt(gtA, gtC), Gt(gtA, gtA)>>
    /\ UNCHANGED <<runVars, gtA, gtB, gtC, call, ret>>

NextGt == GtCall

SpecGt == InitGt /\ [][NextGt]_vars

(***************************************************************************)
(* Properties                                                              *)
(***************************************************************************)
\* the entries of feed f as its url serves them
Served(f) == remote[f].entries

\* the list positions of the entries of s's feed that s's pattern matches
MatchedAt(s) ==
    {p \in 1..Len(Served(FeedOf(s))) :
        search(Pattern(s), Served(FeedOf(s))[p].title).matched}

\* the number s's pattern derives from the entry at list position p
NumberAt(s, p) ==
    from_regex_match(search(Pattern(s), Served(FeedOf(s))[p].title))

YieldsOf(s) == SelectSeq(yields, LAMBDA y : y.sub = s)

YieldsOfFeed(f) == SelectSeq(yields, LAMBDA y : y.feed = f)

SubPos(s) ==
    CHOOSE k \in 1..Len(Subscriptions(FeedOf(s))) :
        Subscriptions(FeedOf(s))[k] = s

\* C1: once the scan of a successfully fetched feed is exhausted, the number
\* of each of its subscriptions is a maximum, under __gt__, of its number at
\* the start of the cycle and the numbers of all entries its pattern matched.
C1_StoredIsMaximum ==
    \A f \in scanned : \A s \in Range(Subscriptions(f)) :
        LET cand == {cycleStart[s]} \cup {NumberAt(s, p) : p \in MatchedAt(s)}
        IN /\ number[s] \in cand
           /\ \A x \in cand : ~Gt(x, number[s])

\* C2 (as claimed): for each subscription, every yielded number is greater
\* than every number yielded earlier in the same scan.
C2_StrictlyAscending ==
    \A s \in Subs : \A i, j \in 1..Len(YieldsOf(s)) :
        i < j => Gt(YieldsOf(s)[j].number, YieldsOf(s)[i].number)

\* the feed lists the entries matched by s newest first: each one has a
\* greater number than every matched entry listed after it
ListedNewestFirst(s) ==
    \A p, q \in MatchedAt(s) : p < q => Gt(NumberAt(s, p), NumberAt(s, q))

\* C2 (amended): every yielded number is greater than the subscription's
\* number at the start of the scan, and the yielded numbers of a subscription
\* are strictly ascending when the feed lists its matches newest first.
C2_AboveBaselineAscendingIfListedInOrder ==
    /\ \A i \in 1..Len(yields) :
           Gt(yields[i].number, cycleStart[yields[i].sub])
    /\ \A s \in Subs :
           ListedNewestFirst(s) =>
               \A i, j \in 1..Len(YieldsOf(s)) :
                   i < j => Gt(YieldsOf(s)[j].number, YieldsOf(s)[i].number)

\* a subscription has been yielded twice, the second number not greater than
\* the first
C2_Witness ==
    \E s \in Subs : \E i, j \in 1..Len(YieldsOf(s)) :
        /\ i < j
        /\ ~Gt(YieldsOf(s)[j].number, YieldsOf(s)[i].number)

\* the (subscription, list position) pairs of feed f that are above the
\* snapshot baseline
AboveBaseline(f) ==
    {<<s, p>> \in Range(Subscriptions(f)) \X (1..Len(Served(f))) :
        /\ p \in MatchedAt(s)
        /\ Gt(NumberAt(s, p), cycleStart[s])}

YieldedPairs(f) ==
    {<<YieldsOfFeed(f)[i].sub, YieldsOfFeed(f)[i].index>> :
        i \in 1..Len(YieldsOfFeed(f))}

\* C3: a matched entry is yielded for a subscription iff its number is
\* greater than the subscription's number as it was at the start of the scan:
\* only such pairs are yielded, none twice, and an exhausted scan has yielded
\* all of them.
C3_YieldedIffAboveSnapshot ==
    \A f \in Range(Feeds) :
        /\ YieldedPairs(f) \subseteq AboveBaseline(f)
        /\ Cardinality(YieldedPairs(f)) = Len(YieldsOfFeed(f))
        /\ (f \in scanned /\ Len(Subscriptions(f)) > 0)
               => YieldedPairs(f) = AboveBaseline(f)

\* an exhausted scan yielded, for one subscription, a number lower than one
\* it had yielded (and stored) before
C3_Witness ==
    \E s \in Subs : \E i, j \in 1..Len(YieldsOf(s)) :
        /\ FeedOf(s) \in scanned
        /\ i < j
        /\ Gt(YieldsOf(s)[i].number, YieldsOf(s)[j].number)

\* C4: in a cycle that follows a completed one over the same feed contents,
\* nothing that was yielded in the earlier cycle is yielded again.
C4_NothingYieldedAgain ==
    cycle > 1 =>
        \A i \in 1..Len(yields) : \A j \in 1..Len(prevYields) :
            ~(/\ yields[i].sub = prevYields[j].sub
              /\ yields[i].index = prevYields[j].index)

\* C5: the pairs are yielded in visiting order, entries from the last of the
\* list to the first and subscriptions in map order within one entry, each
\* with the number of the entry at its list position; a feed listing S01E03
\* then S01E02 against (1,1) yields S01E02, then S01E03, and ends at (1,3).
C5_YieldedInVisitingOrder ==
    /\ \A i \in 1..Len(yields) :
           /\ yields[i].index \in MatchedAt(yields[i].sub)
           /\ yields[i].number = NumberAt(yields[i].sub, yields[i].index)
    /\ \A i, j \in 1..Len(yields) :
           (i < j /\ yields[i].feed = yields[j].feed) =>
               \/ yields[i].index > yields[j].index
               \/ /\ yields[i].index = yields[j].index
                  /\ SubPos(yields[i].sub) < SubPos(yields[j].sub)
    /\ (/\ Served("F1") = <<Entry("A", 1, 3), Entry("A", 1, 2)>>
        /\ cycleStart["s1"] = EpisodeNumber(1, 1)
        /\ "F1" \in scanned)
           => /\ YieldsOf("s1") =
                     <<[feed |-> "F1", sub |-> "s1", index |-> 2,
                        number |-> EpisodeNumber(1, 2)],
                       [feed |-> "F1", sub |-> "s1", index |-> 1,
                        number |-> EpisodeNumber(1, 3)]>>
              /\ number["s1"] = EpisodeNumber(1, 3)

\* the scan of the feed listing S01E03 then S01E02 against (1,1) is exhausted
C5_Witness ==
    /\ Served("F1") = <<Entry("A", 1, 3), Entry("A", 1, 2)>>
    /\ ~FetchRaises(remote["F1"])
    /\ cycleStart["s1"] = EpisodeNumber(1, 1)
    /\ "F1" \in scanned
    /\ Len(YieldsOf("s1")) = 2

\* C6: each subscription's number is its number at the start of the cycle
\* or a number greater than it.
C6_NeverBelowBaseline ==
    \A s \in Subs :
        number[s] = cycleStart[s] \/ Gt(number[s], cycleStart[s])

\* in the middle of a scan a number has been advanced
C6_Witness ==
    /\ pc = "scan"
    /\ index <= Len(rss)
    /\ \E s \in Subs : number[s] # cycleStart[s]

\* the answer makes the fetch fail: status not successful, or feed malformed
FetchFailure(response) ==
    response.status \notin 200..299 \/ response.bozo

\* the fetch of the k-th feed has been attempted
FetchAttempted(k) ==
    /\ Subscriptions(Feeds[k]) # <<>>
    /\ feed > k \/ (feed = k /\ pc # "check_feeds")

\* C7: a failing fetch raises FeedError; no pair of that feed is yielded and
\* the numbers of its subscriptions stay as they were.
C7_FetchFailureYieldsNothing ==
    \A k \in 1..Len(Feeds) :
        FetchFailure(remote[Feeds[k]]) =>
            /\ Len(YieldsOfFeed(Feeds[k])) = 0
            /\ \A s \in Range(Subscriptions(Feeds[k])) :
                   number[s] = cycleStart[s]
            /\ FetchAttempted(k) => (pc = "failed" /\ error = "FeedError")

\* the fetch of a malformed feed has raised FeedError
C7_Witness ==
    /\ pc = "failed"
    /\ error = "FeedError"
    /\ feed <= Len(Feeds)
    /\ remote[Feeds[feed]].bozo

\* C8: when the fetch of one feed raises FeedError, the other feeds whose
\* fetch succeeds are still scanned and their matches launched in the cycle.
C8_OtherFeedsProceed ==
    (pc = "failed" /\ error = "FeedError") =>
        \A g \in Range(Feeds) \ {Feeds[feed]} :
            ~FetchRaises(remote[g]) =>
                /\ g \in scanned
                /\ Len(launched) >= Len(YieldsOfFeed(g))

\* the number of the last pair yielded for s
LastYielded(s) == YieldsOf(s)[Len(YieldsOf(s))].number

C10_NoEpisodeIsNeverGreater ==
    gtRes # <<>> =>
        /\ gtA.episode = None => gtRes[1] = FALSE
        /\ (gtA.episode # None /\ gtB.episode = None) => gtRes[1] = TRUE

\* two numbers without an episode and with different series were compared
C10_Witness ==
    /\ gtRes # <<>>
    /\ gtA.episode = None
    /\ gtB.episode = None
    /\ gtA.series # gtB.series
    /\ gtA.series # None

\* gtA > gtB, gtB > gtA, gtA == gtB, gtB > gtC, gtA > gtC, gtA > gtA as the
\* calls returned them
AgtB == gtRes[1]
BgtA == gtRes[2]
AeqB == gtRes[3]
BgtC == gtRes[4]
AgtC == gtRes[5]
AgtA == gtRes[6]

\* C11: between two numbers that both have an episode, two different series
\* that are both set decide on their own; otherwise the episodes decide.
C11_SeriesThenEpisode ==
    (gtRes # <<>> /\ gtA.episode # None /\ gtB.episode # None) =>
        IF gtA.series # None /\ gtB.series # None /\ gtA.series # gtB.series
        THEN AgtB = (gtA.series > gtB.series)
        ELSE AgtB = (gtA.episode > gtB.episode)

\* (2,1) has been compared with (1,2), both ways
C11_Witness ==
    /\ gtRes # <<>>
    /\ gtA = EpisodeNumber(2, 1)
    /\ gtB = EpisodeNumber(1, 2)
    /\ AgtB
    /\ ~BgtA

\* both numbers have a series or both lack one
SeriesSymmetric(a, b) == (a.series = None) <=> (b.series = None)

ExactlyOne(p, q, r) ==
    (p /\ ~q /\ ~r) \/ (~p /\ q /\ ~r) \/ (~p /\ ~q /\ r)

C13_StrictOrder ==
    gtRes # <<>> =>
        /\ ~AgtA
        /\ (AgtB /\ BgtC) => AgtC

\* all three numbers have a series or all three lack one
SeriesUniform == SeriesSymmetric(gtA, gtB) /\ SeriesSymmetric(gtB, gtC)

\* C13 (amended): greater-than is irreflexive over all numbers, and
\* transitive over numbers that all have a series or all lack one.
C13_StrictOrderOnUniformSeries ==
    gtRes # <<>> =>
        /\ ~AgtA
        /\ (SeriesUniform /\ AgtB /\ BgtC) => AgtC

\* a chain a > b > c through two different series has been compared
C13_Witness ==
    /\ gtRes # <<>>
    /\ SeriesUniform
    /\ gtA.series # None
    /\ gtA.series # gtB.series
    /\ gtB.series = gtC.series
    /\ AgtB
    /\ BgtC

(***************************************************************************)
(* Feed.get_entry_url on its own: any entry, one call                      *)
(***************************************************************************)
\* the run and the comparisons stay out of it
NoRun ==
    /\ config = [s \in Subs |-> SubDict(None, None)]
    /\ remote = [f \in Range(Feeds) |-> Response(HTTP_OK, FALSE, <<>>)]
    /\ Idle
    /\ gtA = EpisodeNumber(None, None)
    /\ gtB = EpisodeNumber(None, None)
    /\ gtC = EpisodeNumber(None, None)
    /\ gtRes = <<>>

\* the links an entry may carry
Links ==
    {[type |-> ty, href |-> h] :
        ty \in {TORRENT_MIMETYPE, "text/html"}, h \in {"href1", "href2"}}

LinkLists == UNION {[1..k -> Links] : k \in 0..MaxLinks}

InitUrl ==
    /\ NoRun
    /\ call \in {[entry |-> [links |-> ls, link |-> l]] :
                    ls \in LinkLists, l \in {"href1", "href3"}}
    /\ ret = <<>>

\* await Feed.get_entry_url(entry)
GetEntryUrlCall ==
    /\ ret = <<>>
    /\ ret' = <<get_entry_url(call.entry)>>
    /\ UNCHANGED <<runVars, gtA, gtB, gtC, gtRes, call>>

NextUrl == GetEntryUrlCall

SpecUrl == InitUrl /\ [][NextUrl]_vars

\* the positions of the links of the torrent mimetype
TorrentPositions(links) ==
    {i \in 1..Len(links) : links[i].type = TORRENT_MIMETYPE}

\* C14: the url of an entry is the href of the first of its links that has
\* the torrent mimetype; without such a link it is the entry's primary link.
C14_FirstTorrentLinkElsePrimary ==
    ret # <<>> =>
        LET links == call.entry.links
            T == TorrentPositions(links)
        IN IF T # {}
           THEN \E i \in T : /\ \A j \in T : i <= j
                             /\ ret[1] = links[i].href
           ELSE ret[1] = call.entry.link

\* the url of an entry with another link before two torrent links of
\* different hrefs has been taken
C14_Witness ==
    /\ ret # <<>>
    /\ Len(call.entry.links) = 3
    /\ call.entry.links[1].type # TORRENT_MIMETYPE
    /\ call.entry.links[2].type = TORRENT_MIMETYPE
    /\ call.entry.links[3].type = TORRENT_MIMETYPE
    /\ call.entry.links[2].href # call.entry.links[3].href
    /\ call.entry.links[1].href # call.entry.links[2].href
    /\ call.entry.link # call.entry.links[2].href
    /\ ret[1] = call.entry.links[2].href

(***************************************************************************)
(* Feed.download_entry and Feed.download_entry_torrent_file of the         *)
(* revision with acquisition modes, called on their own                    *)
(***************************************************************************)
\* what a call returned (a url or a path, as a sequence of strings; <<>> is
\* no value), what it raised, and what it did
Result(value, raised, requests, mkdirs, writes) ==
    [value |-> value, raised |-> raised, requests |-> requests,
     mkdirs |-> mkdirs, writes |-> writes]

\* Feed.windows_forbidden_characters_regex
WindowsForbidden == {"\\", "/", ":", "*", "?", "\"", "<", ">", "|"}

\* windows_forbidden_characters_regex.sub('_', path.name)
Sanitized(name) ==
    [i \in 1..Len(name) |-> IF name[i] \in WindowsForbidden THEN "_"
                                                           ELSE name[i]]

\* the position of the dot that starts the suffix of a file name, or 0
SuffixDot(name) ==
    LET dots == {i \in 2..Len(name) - 1 : name[i] = "."}
    IN IF dots = {} THEN 0 ELSE CHOOSE i \in dots : \A j \in dots : j <= i

\* PurePath.with_suffix('.torrent') on the name of the path
with_suffix(name) ==
    (IF SuffixDot(name) = 0 THEN name ELSE SubSeq(name, 1, SuffixDot(name) - 1))
        \o <<".torrent">>

\* Feed.torrent_url_for_entry
torrent_url_for_entry(rss_entry) ==
    LET i == FirstTorrentLink(rss_entry.links, 1)
    IN IF i # 0 THEN rss_entry.links[i].href ELSE rss_entry.link

\* Feed.download_entry_torrent_file: requests.get(url), the file name, the
\* mkdir and the write; the name response_content it hashes is bound nowhere
download_entry_torrent_file(c) ==
    IF ~c.response.ok
    THEN Result(<<>>, "HTTPError", 1, <<>>, <<>>)
    ELSE IF c.hide_torrent_filename_enabled
    THEN Result(<<>>, "NameError", 1, <<>>, <<>>)
    ELSE LET name == with_suffix(c.entry.title)
             path == <<c.directory, "/">>
                        \o (IF c.WINDOWS THEN Sanitized(name) ELSE name)
         IN Result(path, "None", 1, <<c.directory>>,
                   <<[path |-> path, content |-> c.response.content]>>)

\* download_entry never taking the magnet uri
UseMagnetNever(c) == FALSE

\* download_entry: magnet_enabled, and magnet_uri_for_entry finds the uri
UseMagnet(c) == c.magnet_enabled /\ c.entry.has_magnet

\* download_entry preferring the file to the url
ReturnUrlUnlessFile(c) == c.torrent_url_enabled /\ ~c.torrent_file_enabled

\* download_entry: if self.torrent_url_enabled
ReturnUrl(c) == c.torrent_url_enabled

\* download_entry without the check of torrent_file_enabled
NothingToDownloadNever(c) == FALSE

\* download_entry: if not self.torrent_file_enabled
NothingToDownload(c) == ~c.torrent_file_enabled

\* Feed.download_entry
download_entry(c) ==
    IF UseMagnet(c)
    THEN Result(<<c.entry.torrent_magneturi>>, "None", 0, <<>>, <<>>)
    ELSE IF ReturnUrl(c)
    THEN Result(<<torrent_url_for_entry(c.entry)>>, "None", 0, <<>>, <<>>)
    ELSE IF NothingToDownload(c)
    THEN Result(<<>>, "FeedError", 0, <<>>, <<>>)
    ELSE LET r == download_entry_torrent_file(c)
         IN IF r.raised # "None" THEN [r EXCEPT !.raised = "FeedError"]
                                 ELSE r

\* the entries handed to download_entry
DownloadEntries ==
    {[title |-> ti, has_magnet |-> hm, torrent_magneturi |-> "magnet1",
      links |-> ls, link |-> "href3"] :
        ti \in {<<"a">>, <<"a", ":", "b">>, <<"a", ".", "b">>},
        hm \in BOOLEAN,
        ls \in {<<>>,
                <<[type |-> "text/html", href |-> "href2"],
                  [type |-> TORRENT_MIMETYPE, href |-> "href1"]>>}}

InitDownload ==
    /\ NoRun
    /\ call \in
          {[magnet_enabled |-> m, torrent_url_enabled |-> u,
            torrent_file_enabled |-> f, hide_torrent_filename_enabled |-> h,
            WINDOWS |-> w, entry |-> e, directory |-> "dir",
            response |-> [ok |-> ok, content |-> b]] :
              m \in BOOLEAN, u \in BOOLEAN, f \in BOOLEAN, h \in BOOLEAN,
              w \in BOOLEAN, e \in DownloadEntries, ok \in BOOLEAN,
              b \in {"", "bytes"}}
    /\ ret = <<>>

\* feed.download_entry(entry, directory)
DownloadEntryCall ==
    /\ ret = <<>>
    /\ ret' = <<"download_entry", download_entry(call)>>
    /\ UNCHANGED <<runVars, gtA, gtB, gtC, gtRes, call>>

\* feed.download_entry_torrent_file(url, entry, directory)
DownloadEntryTorrentFileCall ==
    /\ ret = <<>>
    /\ ret' = <<"download_entry_torrent_file",
                download_entry_torrent_file(call)>>
    /\ UNCHANGED <<runVars, gtA, gtB, gtC, gtRes, call>>

NextDownload == DownloadEntryCall \/ DownloadEntryTorrentFileCall

SpecDownload == InitDownload /\ [][NextDownload]_vars

\* download_entry has been called and this is what came of it
Downloaded == ret # <<>> /\ ret[1] = "download_entry"

\* the torrent url of the entry: torrent-typed link before primary link
TorrentUrlOf(entry) ==
    IF TorrentPositions(entry.links) = {}
    THEN entry.link
    ELSE entry.links[CHOOSE i \in TorrentPositions(entry.links) :
                        \A j \in TorrentPositions(entry.links) : i <= j].href

\* C15: with magnet acquisition enabled and a magnet uri in the entry,
\* download_entry returns the magnet uri, sends no request and writes no
\* file, whatever the other flags are.
C15_MagnetFirst ==
    (Downloaded /\ call.magnet_enabled /\ call.entry.has_magnet) =>
        /\ ret[2].value = <<call.entry.torrent_magneturi>>
        /\ ret[2].raised = "None"
        /\ ret[2].requests = 0
        /\ ret[2].writes = <<>>

\* the magnet uri came back although url and file acquisition were enabled
C15_Witness ==
    /\ Downloaded
    /\ call.magnet_enabled
    /\ call.entry.has_magnet
    /\ call.torrent_url_enabled
    /\ call.torrent_file_enabled
    /\ ret[2].value = <<"magnet1">>

\* C16: without a usable magnet and with url mode enabled, download_entry
\* returns the torrent url of the entry with no request and no write, also
\* when file mode is enabled; a request is only sent with url mode disabled
\* and file mode enabled.
C16_UrlBeforeFile ==
    Downloaded =>
        /\ (~(call.magnet_enabled /\ call.entry.has_magnet)
                /\ call.torrent_url_enabled) =>
               /\ ret[2].value = <<TorrentUrlOf(call.entry)>>
               /\ ret[2].raised = "None"
               /\ ret[2].requests = 0
               /\ ret[2].writes = <<>>
        /\ (ret[2].requests > 0 \/ ret[2].writes # <<>>) =>
               (~call.torrent_url_enabled /\ call.torrent_file_enabled)

\* the torrent-typed link came back with magnet disabled, a magnet uri in
\* the entry, and url and file mode both enabled
C16_Witness ==
    /\ Downloaded
    /\ ~call.magnet_enabled
    /\ call.entry.has_magnet
    /\ call.torrent_url_enabled
    /\ call.torrent_file_enabled
    /\ ret[2].value = <<"href1">>

Sha256Hex(content) == <<"sha256(", content, ")">>

\* the call ends in download_entry_torrent_file with hidden file name and a
\* successful response
HiddenFileDownload ==
    /\ ret # <<>>
    /\ call.hide_torrent_filename_enabled
    /\ call.response.ok
    /\ \/ ret[1] = "download_entry_torrent_file"
       \/ /\ ret[1] = "download_entry"
          /\ ~(call.magnet_enabled /\ call.entry.has_magnet)
          /\ ~call.torrent_url_enabled
          /\ call.torrent_file_enabled

\* C19: in file mode with hide-filename enabled and a successful GET, the
\* call returns <directory>/<SHA-256 hex digest of the body>.torrent and
\* writes the body to that path.
C19_HashedFileName ==
    HiddenFileDownload =>
        LET path == <<call.directory, "/">> \o Sha256Hex(call.response.content)
                        \o <<".torrent">>
        IN /\ ret[2].raised = "None"
           /\ ret[2].value = path
           /\ ret[2].writes = <<[path |-> path,
                                 content |-> call.response.content]>>

(***************************************************************************)
(* Feed.__init__ of the revision with acquisition modes, and the fetch     *)
(* that check_feeds makes on a constructed, enabled feed                   *)
(***************************************************************************)
\* Feed.__init__ without the check of the modes
AnyModeAssumed(c) == TRUE

\* any([magnet_enabled, torrent_url_enabled, torrent_file_enabled])
AnyModeEnabled(c) ==
    c.magnet_enabled \/ c.torrent_url_enabled \/ c.torrent_file_enabled

\* the position of the first sub_dict whose pattern re.compile rejects, or 0
FirstBadPattern(subscriptions) ==
    LET bad == {i \in 1..Len(subscriptions) : ~subscriptions[i].compilable}
    IN IF bad = {} THEN 0 ELSE CHOOSE i \in bad : \A j \in bad : i <= j

\* what Feed(...) raised, the Feed object if there is one, the Subscription
\* objects constructed on the way, and the fetches made on the feed
FeedInit(c) ==
    IF ~AnyModeEnabled(c)
    THEN [raised |-> "ConfigError", feed |-> <<>>, subscriptions |-> <<>>,
          fetches |-> 0]
    ELSE IF FirstBadPattern(c.subscriptions) # 0
    THEN [raised |-> "ConfigError", feed |-> <<>>,
          subscriptions |->
              SubSeq(c.subscriptions, 1, FirstBadPattern(c.subscriptions) - 1),
          fetches |-> 0]
    ELSE [raised |-> "None",
          feed |-> <<[_enabled |-> c.enabled,
                      magnet_enabled |-> c.magnet_enabled,
                      torrent_url_enabled |-> c.torrent_url_enabled,
                      torrent_file_enabled |-> c.torrent_file_enabled,
                      hide_torrent_filename_enabled |->
                          c.hide_torrent_filename_enabled]>>,
          subscriptions |-> c.subscriptions,
          fetches |-> 0]

\* the sub_dicts of a feed: whether the pattern compiles, and 'enabled'
SubDictLists ==
    UNION {[1..k -> [compilable : BOOLEAN, enabled : BOOLEAN]] : k \in 0..2}

InitFeed ==
    /\ NoRun
    /\ call \in [magnet_enabled : BOOLEAN, torrent_url_enabled : BOOLEAN,
                 torrent_file_enabled : BOOLEAN,
                 hide_torrent_filename_enabled : BOOLEAN, enabled : BOOLEAN,
                 subscriptions : SubDictLists]
    /\ ret = <<>>

\* Feed(config, name, url, subscriptions, ...)
FeedInitCall ==
    /\ ret = <<>>
    /\ ret' = <<FeedInit(call)>>
    /\ UNCHANGED <<runVars, gtA, gtB, gtC, gtRes, call>>

\* Feed.enabled
FeedEnabled(r) ==
    /\ r.feed[1]._enabled
    /\ \E i \in 1..Len(r.subscriptions) : r.subscriptions[i].enabled

\* Config.check_feeds: an enabled feed is fetched by matching_subs
FeedFetch ==
    /\ ret # <<>>
    /\ ret[1].feed # <<>>
    /\ FeedEnabled(ret[1])
    /\ ret[1].fetches = 0
    /\ ret' = <<[ret[1] EXCEPT !.fetches = 1]>>
    /\ UNCHANGED <<runVars, gtA, gtB, gtC, gtRes, call>>

NextFeedInit == FeedInitCall \/ FeedFetch

SpecFeed == InitFeed /\ [][NextFeedInit]_vars

\* C18: constructing a Feed with the three modes disabled raises ConfigError:
\* there is no Feed object, no Subscription was constructed and nothing is
\* fetched.
C18_AllModesDisabledIsConfigError ==
    (/\ ret # <<>>
     /\ ~call.magnet_enabled
     /\ ~call.torrent_url_enabled
     /\ ~call.torrent_file_enabled) =>
        /\ ret[1].raised = "ConfigError"
        /\ ret[1].feed = <<>>
        /\ ret[1].subscriptions = <<>>
        /\ ret[1].fetches = 0

\* ConfigError came of an enabled feed with all modes disabled and two
\* enabled subscriptions of compilable patterns
C18_Witness ==
    /\ ret # <<>>
    /\ ~call.magnet_enabled
    /\ ~call.torrent_url_enabled
    /\ ~call.torrent_file_enabled
    /\ call.enabled
    /\ Len(call.subscriptions) = 2
    /\ \A i \in 1..2 : call.subscriptions[i].compilable
                          /\ call.subscriptions[i].enabled
    /\ ret[1].raised = "ConfigError"

(***************************************************************************)
(* Subscription.__init__                                                   *)
(***************************************************************************)
\* the patterns: whether re.compile accepts them, and regex.groupindex
SubPatterns ==
    {[compilable |-> FALSE, groupindex |-> {}]}
        \cup [compilable : {TRUE},
              groupindex : SUBSET {"series", "episode"}]

\* the keyword arguments given: each of series_number and episode_number is
\* left out or given as None or a number
NumberKwargs ==
    UNION {[D -> {None, 1, 2}] :
               D \in SUBSET {"series_number", "episode_number"}}

\* a keyword argument, or its default None
Kwarg(c, k) == IF k \in DOMAIN c.kwargs THEN c.kwargs[k] ELSE None

\* __init__ asking for any named group
NoGroupAtAll(regex) == regex.groupindex = {}

\* 'episode' not in self.regex.groupindex
EpisodeGroupMissing(regex) == "episode" \notin regex.groupindex

\* what Subscription(...) raised, and the Subscription if there is one
SubscriptionInit(c) ==
    IF ~c.pattern.compilable
    THEN [raised |-> "ConfigError", subscription |-> <<>>]
    ELSE IF EpisodeGroupMissing(c.pattern)
    THEN [raised |-> "ConfigError", subscription |-> <<>>]
    ELSE [raised |-> "None",
          subscription |->
              <<[name |-> c.name, regex |-> c.pattern,
                 number |-> EpisodeNumber(Kwarg(c, "series_number"),
                                          Kwarg(c, "episode_number")),
                 command |-> c.command]>>]

InitSub ==
    /\ NoRun
    /\ call \in [name : {"s1"}, pattern : SubPatterns, kwargs : NumberKwargs,
                 command : {<<>>, <<"cmd", "$URL">>}]
    /\ ret = <<>>

\* Subscription(feed, name, pattern, ...)
SubscriptionInitCall ==
    /\ ret = <<>>
    /\ ret' = <<SubscriptionInit(call)>>
    /\ UNCHANGED <<runVars, gtA, gtB, gtC, gtRes, call>>

NextSub == SubscriptionInitCall

SpecSub == InitSub /\ [][NextSub]_vars

\* the number a keyword stands for: the one given, None when left out
Given(k) == IF k \in DOMAIN call.kwargs THEN call.kwargs[k] ELSE None

\* C20: Subscription(...) raises ConfigError and gives no Subscription when
\* the pattern does not compile or has no group 'episode'; otherwise it
\* succeeds with number = EpisodeNumber(series_number, episode_number), each
\* None when not given.
C20_PatternNeedsEpisodeGroup ==
    ret # <<>> =>
        IF call.pattern.compilable /\ "episode" \in call.pattern.groupindex
        THEN /\ ret[1].raised = "None"
             /\ Len(ret[1].subscription) = 1
             /\ ret[1].subscription[1].number.series = Given("series_number")
             /\ ret[1].subscription[1].number.episode = Given("episode_number")
        ELSE /\ ret[1].raised = "ConfigError"
             /\ ret[1].subscription = <<>>

\* a pattern with only a 'series' group was refused
C20_WitnessRefused ==
    /\ ret # <<>>
    /\ call.pattern.compilable
    /\ call.pattern.groupindex = {"series"}
    /\ ret[1].raised = "ConfigError"

\* a pattern with the group and no numbers given made a Subscription at
\* (None, None)
C20_Witness ==
    /\ ret # <<>>
    /\ call.pattern.groupindex = {"episode"}
    /\ DOMAIN call.kwargs = {}
    /\ ret[1].raised = "None"
    /\ ret[1].subscription[1].number = EpisodeNumber(None, None)

(***************************************************************************)
(* Command.__call__ and Command.subbed_arguments.  A string is a sequence  *)
(* of tokens: an occurrence of the placeholder, or any other piece of      *)
(* text.  The placeholder overlaps neither itself nor the other tokens, so *)
(* re.sub finds exactly the placeholder tokens.                            *)
(***************************************************************************)
\* constants.COMMAND_URL_ARGUMENT
COMMAND_URL_ARGUMENT == "$URL"

\* a repl given as a string: re.sub expands the escapes in it
ExpandedTemplate(url) ==
    [i \in 1..Len(url) |-> IF url[i] = "\\n" THEN "LF" ELSE url[i]]

\* subbed_arguments.replacer: the url as it is
replacer(url) == url

RECURSIVE sub(_, _)
\* re.sub(re.escape(COMMAND_URL_ARGUMENT), replacer, argument)
sub(argument, url) ==
    IF argument = <<>>
    THEN <<>>
    ELSE (IF Head(argument) = COMMAND_URL_ARGUMENT THEN replacer(url)
                                                   ELSE <<Head(argument)>>)
             \o sub(Tail(argument), url)

\* Command.subbed_arguments
subbed_arguments(arguments, url) ==
    [i \in 1..Len(arguments) |-> sub(arguments[i], url)]

\* Command.__call__ asking whether the template is truthy
TemplateNotEmpty(self) == self.arguments # <<>> /\ self.arguments[1] # <<>>

\* self.arguments is not None (arguments is <<>> for None, <<list>> else)
HasTemplate(self) == self.arguments # <<>>

\* Command.launch_with_default_application: the calls it makes
launch_with_default_application(platform, url) ==
    IF platform = "win32"
    THEN [startfile |-> <<url>>, popen |-> <<>>]
    ELSE [startfile |-> <<>>,
          popen |-> <<[args |-> <<<<IF platform = "darwin" THEN "open"
                                                         ELSE "xdg-open">>,
                                  url>>,
                       startupinfo |-> "unset"]>>]

\* Command.__call__: the calls of launch_with_default_application, of
\* os.startfile and of Popen that it makes
CommandCall(self, platform, url) ==
    IF HasTemplate(self)
    THEN [default |-> <<>>, startfile |-> <<>>,
          popen |-> <<[args |-> subbed_arguments(self.arguments[1], url),
                       startupinfo |-> IF platform = "win32"
                                       THEN "STARTF_USESHOWWINDOW"
                                       ELSE "None"]>>]
    ELSE [default |-> <<url>>,
          startfile |-> launch_with_default_application(platform, url).startfile,
          popen |-> launch_with_default_application(platform, url).popen]

\* the arguments of a template
TemplateArguments ==
    UNION {[1..k -> {COMMAND_URL_ARGUMENT, "a"}] : k \in 0..2}

\* Command.arguments: None, or a list of arguments
Templates ==
    {<<>>} \cup {<<as>> : as \in UNION {[1..k -> TemplateArguments] :
                                          k \in 0..MaxArgs}}

\* urls and paths, with backslash escapes and the placeholder in them
Urls ==
    UNION {[1..k -> {"h", "\\n", "\\1", COMMAND_URL_ARGUMENT}] : k \in 0..2}

InitCommand ==
    /\ NoRun
    /\ call \in [self : [arguments : Templates],
                 platform : {"win32", "darwin", "linux"},
                 url : Urls]
    /\ ret = <<>>

\* await command(url)
CommandCallCall ==
    /\ ret = <<>>
    /\ ret' = <<CommandCall(call.self, call.platform, call.url)>>
    /\ UNCHANGED <<runVars, gtA, gtB, gtC, gtRes, call>>

NextCommand == CommandCallCall

SpecCommand == InitCommand /\ [][NextCommand]_vars

\* C21: a Command without a template calls the default opener once with the
\* url and spawns nothing from a template; a Command with a template makes
\* one Popen call with the substituted arguments and never calls the opener.
C21_OpenerOrTemplate ==
    ret # <<>> =>
        IF call.self.arguments = <<>>
        THEN /\ ret[1].default = <<call.url>>
             /\ Len(ret[1].startfile) + Len(ret[1].popen) = 1
             /\ \A i \in 1..Len(ret[1].startfile) :
                    ret[1].startfile[i] = call.url
             /\ \A i \in 1..Len(ret[1].popen) :
                    /\ Len(ret[1].popen[i].args) = 2
                    /\ ret[1].popen[i].args[1] \in {<<"open">>, <<"xdg-open">>}
                    /\ ret[1].popen[i].args[2] = call.url
        ELSE /\ ret[1].default = <<>>
             /\ ret[1].startfile = <<>>
             /\ Len(ret[1].popen) = 1
             /\ Len(ret[1].popen[1].args) = Len(call.self.arguments[1])

\* a Command with a template made its one Popen call with the url in place
\* and left the opener alone
C21_Witness ==
    /\ ret # <<>>
    /\ call.self.arguments = <<<<<<"a">>, <<COMMAND_URL_ARGUMENT>>>>>>
    /\ call.url = <<"h">>
    /\ Len(ret[1].popen) = 1
    /\ ret[1].popen[1].args = <<<<"a">>, <<"h">>>>
    /\ ret[1].default = <<>>

\* a Command without a template opened the url
C21_WitnessOpener ==
    /\ ret # <<>>
    /\ call.self.arguments = <<>>
    /\ call.url = <<"h">>
    /\ ret[1].default = <<<<"h">>>>

\* the placeholders of an argument before position j
PlaceholdersBefore(argument, j) ==
    Cardinality({k \in 1..j - 1 : argument[k] = COMMAND_URL_ARGUMENT})

\* where token j of an argument starts in the substituted argument
PositionOf(argument, j, url) ==
    j + PlaceholdersBefore(argument, j) * (Len(url) - 1)

\* r is the argument with every placeholder replaced by the url, literally
IsSubstituted(r, argument, url) ==
    /\ Len(r) = PositionOf(argument, Len(argument) + 1, url) - 1
    /\ \A j \in 1..Len(argument) :
           IF argument[j] = COMMAND_URL_ARGUMENT
           THEN \A k \in 1..Len(url) :
                    r[PositionOf(argument, j, url) + k - 1] = url[k]
           ELSE r[PositionOf(argument, j, url)] = argument[j]

\* C22: the substituted list has the length and order of the template; every
\* placeholder of every argument is replaced by the url taken literally, and
\* an argument without the placeholder is unchanged.
C22_LiteralSubstitution ==
    (ret # <<>> /\ call.self.arguments # <<>>) =>
        LET template == call.self.arguments[1]
            args == ret[1].popen[1].args
        IN /\ Len(args) = Len(template)
           /\ \A i \in 1..Len(template) :
                  /\ IsSubstituted(args[i], template[i], call.url)
                  /\ (\A j \in 1..Len(template[i]) :
                          template[i][j] # COMMAND_URL_ARGUMENT)
                         => args[i] = template[i]

\* a url with an escape and a backreference in it replaced both placeholders
\* of one argument and left the other argument alone
C22_Witness ==
    /\ ret # <<>>
    /\ call.self.arguments =
           <<<<<<"a">>, <<COMMAND_URL_ARGUMENT, COMMAND_URL_ARGUMENT>>>>>>
    /\ call.url = <<"\\n", "\\1">>
    /\ ret[1].popen[1].args = <<<<"a">>, <<"\\n", "\\1", "\\n", "\\1">>>>

(***************************************************************************)
(* TorrentRSS.save_episode_numbers on its own: any configuration file, any *)
(* numbers.  A JSON object is a function on the keys it has.               *)
(***************************************************************************)
\* sub_dict[key] = value
Put(dict, key, value) ==
    [k \in DOMAIN dict \cup {key} |-> IF k = key THEN value ELSE dict[k]]

\* save_episode_numbers assigning the field whatever it is
PutAlways(sub_dict, key, field) == Put(sub_dict, key, field)

\* if field is not None: sub_dict[key] = field
PutUnlessNone(sub_dict, key, field) ==
    IF field # None THEN Put(sub_dict, key, field) ELSE sub_dict

\* the body of the inner loop of save_episode_numbers
SavedSubDict(sub_dict, num) ==
    PutUnlessNone(PutUnlessNone(sub_dict, "series_number", num.series),
                  "episode_number", num.episode)

\* self.config after the loops of save_episode_numbers
SavedFile(cfg, numbers) ==
    [cfg EXCEPT !.feeds =
        [f \in DOMAIN cfg.feeds |->
            [cfg.feeds[f] EXCEPT !.subscriptions =
                [s \in DOMAIN cfg.feeds[f].subscriptions |->
                    SavedSubDict(cfg.feeds[f].subscriptions[s],
                                 numbers[f][s])]]]]

\* the entry of a subscription in the file: a pattern, and the number keys
\* it has
FileSubDicts ==
    {[k \in {"pattern"} \cup D |-> IF k = "pattern" THEN "regex" ELSE v[k]] :
        D \in SUBSET {"series_number", "episode_number"},
        v \in [{"series_number", "episode_number"} -> {1, 2}]}

\* the configuration files: two feeds of one subscription each
Files ==
    {[default_command |-> <<"cmd">>,
      feeds |-> [F1 |-> [url |-> "url1", subscriptions |-> [s1 |-> d1]],
                 F2 |-> [url |-> "url2", subscriptions |-> [s3 |-> d3]]]] :
        d1 \in FileSubDicts,
        d3 \in {d \in FileSubDicts : "series_number" \notin DOMAIN d}}

InitSave ==
    /\ NoRun
    /\ call \in [config : Files,
                 numbers : [F1 : [s1 : [series : {None, 1}, episode : {None, 3}]],
                            F2 : [s3 : [series : {None, 2}, episode : {None, 1}]]]]
    /\ ret = <<>>

\* await torrentrss.save_episode_numbers(): self.config afterwards, and the
\* text written
SaveEpisodeNumbersCall ==
    /\ ret = <<>>
    /\ ret' = <<[config |-> SavedFile(call.config, call.numbers),
                 written |-> SavedFile(call.config, call.numbers)]>>
    /\ UNCHANGED <<runVars, gtA, gtB, gtC, gtRes, call>>

NextSave == SaveEpisodeNumbersCall

SpecSave == InitSave /\ [][NextSave]_vars

\* the key of a subscription's entry holds the field if the field is a
\* number and is as it was if the field is None
KeyMerged(new, old, key, field) ==
    IF field # None
    THEN key \in DOMAIN new /\ new[key] = field
    ELSE /\ key \in DOMAIN new <=> key \in DOMAIN old
         /\ key \in DOMAIN old => new[key] = old[key]

\* C23: save_episode_numbers writes series_number and episode_number of
\* every subscription of every feed only where the field is not None; a None
\* field leaves its key as it was, and no other key of the file changes.
C23_OnlyNumbersMerged ==
    ret # <<>> =>
        LET old == call.config
            new == ret[1].written
        IN /\ ret[1].config = new
           /\ new.default_command = old.default_command
           /\ DOMAIN new.feeds = DOMAIN old.feeds
           /\ \A f \in DOMAIN old.feeds :
                /\ new.feeds[f].url = old.feeds[f].url
                /\ DOMAIN new.feeds[f].subscriptions
                       = DOMAIN old.feeds[f].subscriptions
                /\ \A s \in DOMAIN old.feeds[f].subscriptions :
                     LET n == new.feeds[f].subscriptions[s]
                         o == old.feeds[f].subscriptions[s]
                         num == call.numbers[f][s]
                     IN /\ KeyMerged(n, o, "series_number", num.series)
                        /\ KeyMerged(n, o, "episode_number", num.episode)
                        /\ DOMAIN n \subseteq
                               DOMAIN o \cup {"series_number",
                                              "episode_number"}
                        /\ n["pattern"] = o["pattern"]

\* a subscription at (None, 3) whose entry had series_number 2 and no
\* episode_number was saved with series_number 2 and episode_number 3, while
\* the one at (None, None) kept an entry without number keys
C23_Witness ==
    /\ ret # <<>>
    /\ call.numbers["F1"]["s1"] = EpisodeNumber(None, 3)
    /\ call.numbers["F2"]["s3"] = EpisodeNumber(None, None)
    /\ DOMAIN call.config.feeds["F1"].subscriptions["s1"]
           = {"pattern", "series_number"}
    /\ call.config.feeds["F1"].subscriptions["s1"]["series_number"] = 2
    /\ DOMAIN call.config.feeds["F2"].subscriptions["s3"] = {"pattern"}
    /\ ret[1].written.feeds["F1"].subscriptions["s1"]["series_number"] = 2
    /\ ret[1].written.feeds["F1"].subscriptions["s1"]["episode_number"] = 3
    /\ DOMAIN ret[1].written.feeds["F2"].subscriptions["s3"] = {"pattern"}

(***************************************************************************)
(* EpisodeNumber.from_regex_match on its own: any groupdict.  A group of   *)
(* the pattern that took no part in the match is in the groupdict with     *)
(* the value None.                                                         *)
(***************************************************************************)
\* what a named group holds: None, two digits, or text that is no number
Captures ==
    {[kind |-> "None", digits |-> <<0, 0>>],
     [kind |-> "text", digits |-> <<0, 0>>]}
        \cup {[kind |-> "digits", digits |-> Digits(n)] :
                 n \in {0, 1, 2, 9, 10, 99}}

\* match.groupdict(): the named groups of the pattern
GroupDicts ==
    UNION {[D -> Captures] : D \in SUBSET {"series", "episode"}}

\* the exception of int(x), or "None"
IntRaises(capture) ==
    IF capture.kind = "None" THEN "TypeError"
    ELSE IF capture.kind = "text" THEN "ValueError"
    ELSE "None"

\* the exception of the series argument, which is evaluated first
SeriesRaises(groups) ==
    IF "series" \in DOMAIN groups THEN IntRaises(groups["series"]) ELSE "None"

\* the exception of the episode argument
EpisodeRaises(groups) ==
    IF "episode" \notin DOMAIN groups THEN "KeyError"
    ELSE IntRaises(groups["episode"])

\* EpisodeNumber.from_regex_match on the groupdict: the exception raised
\* and the value returned (<<>> is no value)
FromGroupDict(groups) ==
    IF SeriesRaises(groups) # "None"
    THEN [raised |-> SeriesRaises(groups), value |-> <<>>]
    ELSE IF EpisodeRaises(groups) # "None"
    THEN [raised |-> EpisodeRaises(groups), value |-> <<>>]
    ELSE [raised |-> "None",
          value |-> <<EpisodeNumber(IF "series" \in DOMAIN groups
                                    THEN int(groups["series"].digits)
                                    ELSE None,
                                    int(groups["episode"].digits))>>]

InitMatch ==
    /\ NoRun
    /\ call \in [groups : GroupDicts]
    /\ ret = <<>>

\* EpisodeNumber.from_regex_match(match)
FromRegexMatchCall ==
    /\ ret = <<>>
    /\ ret' = <<FromGroupDict(call.groups)>>
    /\ UNCHANGED <<runVars, gtA, gtB, gtC, gtRes, call>>

NextMatch == FromRegexMatchCall

SpecMatch == InitMatch /\ [][NextMatch]_vars

\* the group is in the pattern and captured digits
CapturedDigits(group) ==
    group \in DOMAIN call.groups /\ call.groups[group].kind = "digits"

\* C24: from_regex_match returns the integer of the 'episode' group and the
\* integer of the 'series' group, None without one; it returns a value
\* whenever the episode group captured digits, also when a series group of
\* the pattern captured nothing; without an 'episode' group it raises.
C24_EpisodeMandatorySeriesOptional ==
    ret # <<>> =>
        /\ (/\ CapturedDigits("episode")
            /\ "series" \in DOMAIN call.groups
                   => call.groups["series"].kind \in {"digits", "None"}) =>
               /\ ret[1].raised = "None"
               /\ Len(ret[1].value) = 1
               /\ ret[1].value[1].episode = int(call.groups["episode"].digits)
               /\ ret[1].value[1].series =
                      IF CapturedDigits("series")
                      THEN int(call.groups["series"].digits)
                      ELSE None
        /\ "episode" \notin DOMAIN call.groups =>
               /\ ret[1].raised # "None"
               /\ ret[1].value = <<>>

(***************************************************************************)
(* Properties of the scans within a run                                    *)
(***************************************************************************)
\* the feeds without subscriptions
EmptyFeeds == {f \in Range(Feeds) : Subscriptions(f) = <<>>}

\* the scan of feed f is in progress or has raised: f was fetched
Fetching(f) ==
    /\ feed <= Len(Feeds)
    /\ Feeds[feed] = f
    /\ pc \in {"scan", "yielded", "failed"}

\* C25: matching_subs on a feed without subscriptions yields nothing and
\* does not fetch: the run passes the feed whatever its url would answer.
C25_EmptyFeedNotFetched ==
    \A f \in EmptyFeeds :
        /\ ~Fetching(f)
        /\ YieldsOfFeed(f) = <<>>
        /\ (\E k \in 1..Len(Feeds) : Feeds[k] = f /\ feed > k)
               => f \in scanned

\* the run went past a feed without subscriptions whose url answers 404 and
\* on to the launches of what the other feeds yielded
C25_Witness ==
    /\ pc = "launch"
    /\ error = "None"
    /\ "F3" \in EmptyFeeds
    /\ "F3" \in scanned
    /\ FetchRaises(remote["F3"])
    /\ Len(yields) > 0

\* the number matching_subs derives from the entry of a yielded pair
NumberOfPair(pair) ==
    from_regex_match(search(Pattern(pair.sub), pair.entry.title))

\* C26: when a pair is handed to the consumer, the number of its
\* subscription is already the number of its entry, and it stays so when
\* the consumer stops there.
C26_AssignedBeforeYield ==
    pending # <<>> =>
        /\ number[pending[1].sub] = NumberOfPair(pending[1])
        /\ number[pending[1].sub] # original_numbers[pending[1].sub]

\* the consumer stopped at a pair (get_entry_url raised) and the
\* subscription is at the number of that pair
C26_Witness ==
    /\ pc = "failed"
    /\ error = "KeyError"
    /\ pending # <<>>
    /\ number[pending[1].sub] = NumberOfPair(pending[1])
    /\ number[pending[1].sub] # cycleStart[pending[1].sub]

\* no entry of s's feed that s's pattern matches is above s's baseline
NothingAboveBaseline(s) ==
    \A p \in MatchedAt(s) : ~Gt(NumberAt(s, p), cycleStart[s])

\* C27: a scan changes the number only of a subscription it yields a pair
\* for: one whose pattern matches nothing, or only entries not greater than
\* its baseline, is yielded for never and keeps its number of the start of
\* the cycle.
C27_OnlyYieldedSubsChange ==
    \A s \in Subs :
        /\ YieldsOf(s) = <<>> => number[s] = cycleStart[s]
        /\ NothingAboveBaseline(s) =>
               /\ YieldsOf(s) = <<>>
               /\ number[s] = cycleStart[s]

\* an exhausted scan left s1 at (1, 1), which its feed lists, and s2 at
\* (None, None), whose pattern matched nothing, while F2's s3 moved on
C27_Witness ==
    /\ {"F1", "F2"} \subseteq scanned
    /\ Served("F1") = <<Entry("A", 1, 1)>>
    /\ cycleStart["s1"] = EpisodeNumber(1, 1)
    /\ number["s1"] = EpisodeNumber(1, 1)
    /\ MatchedAt("s1") # {}
    /\ number["s3"] # cycleStart["s3"]

\* the position of feed f in the feed map
FeedPos(f) == CHOOSE k \in 1..Len(Feeds) : Feeds[k] = f

\* the entry that the i-th yield of the cycle handed over
YieldedEntry(i) == Served(yields[i].feed)[yields[i].index]

\* the command the configuration gives for the i-th yield of the cycle
ConfiguredCommand(i) ==
    IF yields[i].sub = "s1" THEN "command_s1" ELSE "default_command"

\* C28: check_feeds has scanned every feed before it launches anything;
\* the launches are, one for one and in order, those of the yielded pairs
\* in feed-map order and yield order, each with the subscription's own
\* command or else the default command.
C28_ScansThenLaunchesInOrder ==
    /\ Len(launched) > 0 => scanned = Range(Feeds)
    /\ Len(launched) <= Len(yields)
    /\ \A i \in 1..Len(launched) :
           /\ launched[i].url = TorrentUrlOf(YieldedEntry(i))
           /\ launched[i].command = ConfiguredCommand(i)
    /\ \A i, j \in 1..Len(yields) :
           i < j => FeedPos(yields[i].feed) <= FeedPos(yields[j].feed)
    /\ pc \in {"save", "done"} => Len(launched) = Len(yields)

\* check_feeds returned after launching s1's own command for a pair of F1
\* and then the default command for a pair of F2
C28_Witness ==
    /\ pc = "save"
    /\ Len(launched) = Len(yields)
    /\ \E i, j \in 1..Len(launched) :
           /\ i < j
           /\ yields[i].feed = "F1"
           /\ launched[i].command = "command_s1"
           /\ yields[j].feed = "F2"
           /\ launched[j].command = "default_command"

(***************************************************************************)
(* Feed.matching_subs of several feeds driven by an orchestrator that      *)
(* interleaves the scans.  In this specification pc, rss,                  *)
(* original_numbers, index and subIdx hold one value per feed.             *)
(***************************************************************************)
\* every feed iterating one subscription map shared by all feeds
SharedSubscriptions(f) == <<"s1", "s2", "s3">>

\* self.subscriptions.values(): the Subscriptions that Feed.__init__ made
\* for this feed
OwnSubscriptions(f) == Subscriptions(f)

\* what the url of F2 may answer when the scans are interleaved
InterleavedResponses ==
    {Response(HTTP_OK, FALSE, <<>>),
     Response(HTTP_OK, FALSE, <<Entry("A", 1, 2)>>),
     Response(HTTP_OK, FALSE, <<Entry("A", 1, 2), Entry("A", 1, 1)>>),
     Response(404, FALSE, RefusedEntries)}

InitInterleaved ==
    /\ config \in {c \in [Subs -> UNION {SubDicts(s) : s \in Subs}] :
                      /\ c["s1"] \in {SubDict(None, None), SubDict(1, 1)}
                      /\ c["s2"] = SubDict(None, 1)
                      /\ c["s3"] = SubDict(None, None)}
    /\ remote \in {[F1 |-> Response(HTTP_OK, FALSE, es), F2 |-> r2,
                     F3 |-> Response(404, FALSE, RefusedEntries)] :
                        es \in EntryLists(MaxEntries),
                        r2 \in InterleavedResponses}
    /\ number = LoadNumbers(config)
    /\ cycleStart = number
    /\ pc = [f \in Range(Feeds) |-> "start"]
    /\ rss = [f \in Range(Feeds) |-> <<>>]
    /\ original_numbers = [f \in Range(Feeds) |-> EmptyMap]
    /\ index = [f \in Range(Feeds) |-> 0]
    /\ subIdx = [f \in Range(Feeds) |-> 0]
    /\ yields = <<>>
    /\ feed = 0
    /\ pending = <<>>
    /\ urls = <<>>
    /\ launchIdx = 0
    /\ launched = <<>>
    /\ error = "None"
    /\ cycle = 1
    /\ prevYields = <<>>
    /\ scanned = {}
    /\ gtA = EpisodeNumber(None, None)
    /\ gtB = EpisodeNumber(None, None)
    /\ gtC = EpisodeNumber(None, None)
    /\ gtRes = <<>>
    /\ call = <<>>
    /\ ret = <<>>

\* what the interleaved scans leave alone
scanFrame == <<config, remote, feed, pending, urls, launchIdx, launched,
               error, cycle, prevYields, cycleStart, scanned, gtVars>>

\* matching_subs of feed f up to the loop
ScanFetch(f) ==
    /\ pc[f] = "start"
    /\ IF OwnSubscriptions(f) = <<>>
       THEN /\ pc' = [pc EXCEPT ![f] = "done"]
            /\ UNCHANGED <<rss, original_numbers, index, subIdx>>
       ELSE IF FetchRaises(remote[f])
       THEN /\ pc' = [pc EXCEPT ![f] = "failed"]
            /\ UNCHANGED <<rss, original_numbers, index, subIdx>>
       ELSE /\ pc' = [pc EXCEPT ![f] = "scan"]
            /\ rss' = [rss EXCEPT ![f] = remote[f].entries]
            /\ original_numbers' =
                   [original_numbers EXCEPT
                       ![f] = [s \in Range(OwnSubscriptions(f)) |-> number[s]]]
            /\ index' = [index EXCEPT ![f] = 1]
            /\ subIdx' = [subIdx EXCEPT ![f] = 1]
    /\ UNCHANGED <<number, yields, scanFrame>>

\* matching_subs of feed f: one entry against one subscription, the pair
\* handed to the orchestrator if it is yielded
ScanVisit(f) ==
    /\ pc[f] = "scan"
    /\ index[f] <= Len(rss[f])
    /\ LET subs == OwnSubscriptions(f)
           s == subs[subIdx[f]]
           match == search(Pattern(s), VisitOrder(rss[f])[index[f]].title)
           num == from_regex_match(match)
       IN /\ IF subIdx[f] < Len(subs)
             THEN /\ subIdx' = [subIdx EXCEPT ![f] = subIdx[f] + 1]
                  /\ index' = index
             ELSE /\ subIdx' = [subIdx EXCEPT ![f] = 1]
                  /\ index' = [index EXCEPT ![f] = index[f] + 1]
          /\ IF match.matched /\ Gt(num, original_numbers[f][s])
             THEN /\ number' = Assign(s, num)
                  /\ yields' = Append(yields,
                                 [feed |-> f, sub |-> s, number |-> num,
                                  index |-> ListIndex(index[f], rss[f])])
             ELSE UNCHANGED <<number, yields>>
    /\ UNCHANGED <<pc, rss, original_numbers, scanFrame>>

\* matching_subs of feed f: the generator is exhausted
ScanEnd(f) ==
    /\ pc[f] = "scan"
    /\ index[f] > Len(rss[f])
    /\ pc' = [pc EXCEPT ![f] = "done"]
    /\ UNCHANGED <<number, yields, rss, original_numbers, index, subIdx,
                   scanFrame>>

NextInterleaved ==
    \E f \in Range(Feeds) : ScanFetch(f) \/ ScanVisit(f) \/ ScanEnd(f)

SpecInterleaved == InitInterleaved /\ [][NextInterleaved]_vars

RECURSIVE AloneFrom(_, _, _, _)
\* the scan of feed f run alone from its k-th visit on: the numbers it
\* leaves for its subscriptions and the pairs it yields
AloneFrom(f, k, nums, ys) ==
    LET subs == Subscriptions(f)
        entries == Served(f)
    IN IF k > Len(entries) * Len(subs)
       THEN [number |-> nums, yields |-> ys]
       ELSE LET i == ((k - 1) \div Len(subs)) + 1
                s == subs[((k - 1) % Len(subs)) + 1]
                match == search(Pattern(s), Reverse(entries)[i].title)
                num == from_regex_match(match)
            IN IF match.matched /\ Gt(num, cycleStart[s])
               THEN AloneFrom(f, k + 1, [nums EXCEPT ![s] = num],
                              Append(ys, [feed |-> f, sub |-> s,
                                          number |-> num,
                                          index |-> Len(entries) - i + 1]))
               ELSE AloneFrom(f, k + 1, nums, ys)

\* the scan of feed f run with no other scan in between
Alone(f) ==
    IF Subscriptions(f) = <<>> \/ FetchRaises(remote[f])
    THEN [number |-> cycleStart, yields |-> <<>>]
    ELSE AloneFrom(f, 1, cycleStart, <<>>)

\* C29: however the scans of the feeds are interleaved, each feed yields
\* the sequence, and leaves its subscriptions at the numbers, of its scan
\* run alone; before its scan a feed's subscriptions are as they started.
C29_InterleavingChangesNothing ==
    \A f \in Range(Feeds) :
        /\ pc[f] = "start" =>
               /\ YieldsOfFeed(f) = <<>>
               /\ \A s \in Range(Subscriptions(f)) : number[s] = cycleStart[s]
        /\ pc[f] \in {"done", "failed"} =>
               /\ YieldsOfFeed(f) = Alone(f).yields
               /\ \A s \in Range(Subscriptions(f)) :
                      number[s] = Alone(f).number[s]

\* both feeds are done, each having yielded, with a pair of F2 handed over
\* between two pairs of F1
C29_Witness ==
    /\ pc["F1"] = "done"
    /\ pc["F2"] = "done"
    /\ \E i, j, k \in 1..Len(yields) :
           /\ i < j
           /\ j < k
           /\ yields[i].feed = "F1"
           /\ yields[j].feed = "F2"
           /\ yields[k].feed = "F1"

(***************************************************************************)
(* Properties of TorrentRSS.run                                            *)
(***************************************************************************)
\* the numbers the persisted configuration holds
Persisted == LoadNumbers(config)

\* C30: run saves the numbers only after check_feeds returned: until then,
\* and for good when a fetch, get_entry_url or a launch raised, the
\* persisted configuration holds the numbers of the start of the cycle,
\* also for pairs whose command was launched.
C30_SavedOnlyAfterCleanCheck ==
    /\ pc # "done" => Persisted = cycleStart
    /\ error # "None" => (pc = "failed" /\ Persisted = cycleStart)
    /\ pc = "done" =>
           /\ Len(launched) = Len(yields)
           /\ \A s \in Subs : number[s].episode # None
                                => Persisted[s].episode = number[s].episode

\* the second launch raised after the first had spawned its process: the
\* subscription has advanced and the file still holds its old number
C30_Witness ==
    /\ pc = "failed"
    /\ error = "OSError"
    /\ Len(launched) = 1
    /\ number[yields[1].sub] # cycleStart[yields[1].sub]
    /\ Persisted[yields[1].sub] = cycleStart[yields[1].sub]

====
